---- MODULE Spec2Model ----
(***************************************************************************)
(* Model of the SkyPortal front-end API thunk (API.js) and of the          *)
(* SourceTable component (SourceTable.jsx): its first render and its       *)
(* filter, table-change and save/decline handlers.                         *)
(*                                                                         *)
(* A thunk invocation is a JavaScript async function: it runs to           *)
(* completion between awaits, so one action of the model is one            *)
(* synchronous run of the code between two suspension points.              *)
(***************************************************************************)
EXTENDS Naturals, Integers, Sequences, FiniteSets, TLC

VARIABLES
    pc,            \* pc[i]: where thunk invocation i is suspended
    parameters,    \* parameters[i]: the request descriptor captured by the closure
    fetchInit,     \* fetchInit[i]: the init object handed to fetch
    net,           \* net[i]: state of the fetch promise and of the response.json() promise
    log,           \* every call of dispatch and of fetch, in program order
    mounted,       \* whether the component that started the invocations is mounted
    tableFilterList,  \* SourceTable state: the labels of the filter chips
    filterFormData,   \* SourceTable state: the last applied filter set, or null
    rowsPerPage,      \* SourceTable state: the rows per page
    calls,            \* every call of paginateCallback and sortingCallback, in order
    numPerPage,       \* SourceTable prop: the rows per page the parent asks for
    displayedColumns, \* SourceTable state: the labels of the displayed columns
    defaultDisplayedColumns,  \* the module-level variable of SourceTable.jsx
    mounts,           \* every first render of a SourceTable, in order
    awaiting,         \* awaiting[i]: the save/decline handler suspended on thunk i
    dispatched        \* every call of dispatch made by these handlers, in order

apiVars == <<pc, parameters, fetchInit, net, log, mounted>>

requestVars == <<awaiting, dispatched>>

filterVars == <<tableFilterList, filterFormData, rowsPerPage, calls, numPerPage>>

viewVars == <<displayedColumns, defaultDisplayedColumns, mounts>>

tableVars == <<tableFilterList, filterFormData, rowsPerPage, calls, numPerPage,
               displayedColumns, defaultDisplayedColumns, mounts,
               awaiting, dispatched>>

vars == <<pc, parameters, fetchInit, net, log, mounted,
          tableFilterList, filterFormData, rowsPerPage, calls, numPerPage,
          displayedColumns, defaultDisplayedColumns, mounts,
          awaiting, dispatched>>

----------------------------------------------------------------------------
(* Bounds *)

\* Number of thunk invocations that can be in flight together.
MaxInFlight == 2

\* Number of calls of paginateCallback that are followed.
MaxCalls == 2

\* Number of SourceTable instances mounted in one page session.
MaxTables == 3

\* Number of calls of paginateCallback and sortingCallback that are followed
\* when every handler of the table is exercised.
MaxTableCalls == 3

\* Number of clicks on the Save and Decline buttons that are followed.
MaxRequests == 1

Thunks == 1..MaxInFlight

\* The thunk invocations that the Save and Decline handlers dispatch.
Requests == 1..MaxRequests

----------------------------------------------------------------------------
(* JavaScript values *)

\* The value undefined (an argument that was not passed).
Undefined == "<undefined>"

\* Template-literal conversion `${v}` of a string or of undefined.
Str(v) == IF v = Undefined THEN "undefined" ELSE v

\* !v for a string or undefined.
Falsy(v) == v \in {Undefined, ""}

\* An object with string keys is a function from its keys to its values.
EmptyObj == [k \in {} |-> ""]

\* { ...a, ...b }: the later spread wins on a common key.
Spread(a, b) ==
    [k \in (DOMAIN a) \cup (DOMAIN b) |-> IF k \in DOMAIN b THEN b[k] ELSE a[k]]

\* obj[k], undefined when the key is absent.
Field(obj, k) == IF k \in DOMAIN obj THEN obj[k] ELSE Undefined

\* JSON.stringify of a body: null, or an object given as the sequence of its
\* <<key, value>> string members in insertion order.
RECURSIVE StringifyMembers(_)
StringifyMembers(ms) ==
    IF ms = <<>> THEN ""
    ELSE LET m == "\"" \o ms[1][1] \o "\":\"" \o ms[1][2] \o "\""
         IN  IF Len(ms) = 1 THEN m ELSE m \o "," \o StringifyMembers(Tail(ms))

NullBody == << <<"null">> >>

Stringify(body) ==
    IF body = NullBody THEN "null" ELSE "{" \o StringifyMembers(body) \o "}"

----------------------------------------------------------------------------
(* Inputs *)

Methods == {"GET", "POST", "PUT", "PATCH", "DELETE"}

ActionTypes == {Undefined, "", "FETCH_SOURCES", "SAVE_SOURCE"}

Endpoints == {"/api/sources"}

Bodies ==
    { <<>>,
      << <<"sourceID", "s1">> >>,
      << <<"sourceID", "s1">>, <<"groupID", "g1">> >>,
      NullBody }

OtherArgsSet ==
    { EmptyObj,
      [cache |-> "no-store"],
      [body |-> "{}"],
      [body |-> "raw", method |-> "HEAD"] }

\* What response.json() can resolve to: null, or an object over these fields.
JsonNull == [isNull |-> TRUE, obj |-> EmptyObj]

JsonObj(o) == [isNull |-> FALSE, obj |-> o]

JsonFieldValues ==
    [status  |-> {"success", "error"},
     message |-> {"m"},
     data    |-> {"X"},
     type    |-> {"OTHER", "SAVE_SOURCE_OK"}]

\* The objects over one field: without it, or with each of its values.
OneField(k) == {EmptyObj} \cup {[x \in {k} |-> v] : v \in JsonFieldValues[k]}

JsonObjects ==
    { Spread(Spread(s, m), Spread(d, t)) :
        s \in OneField("status"), m \in OneField("message"),
        d \in OneField("data"), t \in OneField("type") }

JsonValues == {JsonNull} \cup {JsonObj(o) : o \in JsonObjects}

\* Messages of the errors fetch rejects with and response.json() rejects with.
FetchErrors == {"Failed to fetch"}

JsonErrors == {"Unexpected token < in JSON at position 0"}

----------------------------------------------------------------------------
(* API(endpoint, actionType, method, body, otherArgs) *)

\* An optional argument: <<>> when it is not passed, <<v>> when it is v.
NotPassed == <<>>

Passed(v) == <<v>>

\* A parameter default, as in `body={}`.
Default(opt, dflt) == IF opt = NotPassed THEN dflt ELSE opt[1]

\* const parameters = { endpoint, actionType, body, method, otherArgs }
Descriptor(endpoint, actionType, body, method, otherArgs) ==
    [endpoint |-> endpoint, actionType |-> actionType, body |-> body,
     method |-> method, otherArgs |-> otherArgs]

\* The fetch init object: the defaults, then otherArgs spread over them, then
\* the serialized body for every method but GET.
FetchInitNoBodyForDelete(method, body, otherArgs) ==
    LET base == Spread([credentials |-> "same-origin",
                        contentType |-> "application/json",
                        method      |-> method], otherArgs)
    IN  IF method \notin {"GET", "DELETE"}
        THEN Spread(base, [body |-> Stringify(body)])
        ELSE base

FetchInit(method, body, otherArgs) ==
    LET base == Spread([credentials |-> "same-origin",
                        contentType |-> "application/json",
                        method      |-> method], otherArgs)
    IN  IF method # "GET"
        THEN Spread(base, [body |-> Stringify(body)])
        ELSE base

\* What API returns: the thunk, a closure over parameters and fetchInit.
API(endpoint, actionType, optMethod, optBody, optOtherArgs) ==
    LET method    == Default(optMethod, "GET")
        body      == Default(optBody, <<>>)
        otherArgs == Default(optOtherArgs, EmptyObj)
    IN  [parameters |-> Descriptor(endpoint, actionType, body, method, otherArgs),
         fetchInit  |-> FetchInit(method, body, otherArgs)]

GET(endpoint, actionType) ==
    API(endpoint, actionType, Passed("GET"), NotPassed, NotPassed)

POST(endpoint, actionType, payload) ==
    API(endpoint, actionType, Passed("POST"), payload, NotPassed)

PATCH(endpoint, actionType, payload) ==
    API(endpoint, actionType, Passed("PATCH"), payload, NotPassed)

PUT(endpoint, actionType, payload) ==
    API(endpoint, actionType, Passed("PUT"), payload, NotPassed)

DELETE(endpoint, actionType, payload) ==
    API(endpoint, actionType, Passed("DELETE"), payload, NotPassed)

----------------------------------------------------------------------------
(* What the thunk hands to dispatch and to fetch *)

\* One entry of the log: a call of dispatch ("notify", "start", "terminal": the
\* place in the thunk that made it) or of fetch ("fetch").  obj is the action
\* object (the init object for fetch), params its parameters field when it has
\* one, text the notification text as the parts of its template literal (the
\* endpoint for fetch).
Event(i, kind, obj, params, text) ==
    [inv |-> i, kind |-> kind, obj |-> obj, params |-> params, text |-> text]

ShowNotification(i, text) == Event(i, "notify", EmptyObj, <<>>, text)

NoActionTypeMsg == "API invocation error: no actionType specified"

\* dispatch({ type: actionType, parameters })
StartAction(i, d) == Event(i, "start", [type |-> d.actionType], <<d>>, <<>>)

\* fetch(endpoint, fetchInit)
FetchCall(i, d, init) == Event(i, "fetch", init, <<>>, <<d.endpoint>>)

\* { type: `${actionType}_ERROR`, ...json }
ErrorAction(i, d, json) ==
    Event(i, "terminal",
          Spread([type |-> Str(d.actionType) \o "_ERROR"], json.obj), <<>>, <<>>)

\* { type: `${actionType}_OK`, ...json }
OkAction(i, d, json) ==
    Event(i, "terminal",
          Spread([type |-> Str(d.actionType) \o "_OK"], json.obj), <<>>, <<>>)

\* { type: `${actionType}_FAIL`, parameters }
FailAction(i, d) ==
    Event(i, "terminal", [type |-> Str(d.actionType) \o "_FAIL"], <<d>>, <<>>)

\* The dispatch calls before the try block.
EntryDispatches(i, d) ==
    (IF Falsy(d.actionType)
     THEN <<ShowNotification(i, <<NoActionTypeMsg>>)>>
     ELSE <<>>) \o <<StartAction(i, d)>>

\* The dispatch calls of the try block once the body is decoded to an object.
TryDispatches(i, d, json) ==
    IF Field(json.obj, "status") # "success"
    THEN <<ShowNotification(i, <<Str(Field(json.obj, "message"))>>),
           ErrorAction(i, d, json)>>
    ELSE <<OkAction(i, d, json)>>

\* The dispatch calls of the catch block; message is error.message in parts.
CatchDispatchesWithoutParameters(i, d, message) ==
    <<ShowNotification(i, message),
      Event(i, "terminal", [type |-> Str(d.actionType) \o "_FAIL"], <<>>, <<>>)>>

CatchDispatches(i, d, message) ==
    <<ShowNotification(i, message), FailAction(i, d)>>

\* new Error(`JSON decoding error: ${error}`).message, error a SyntaxError.
JsonDecodingError(msg) == <<"JSON decoding error: ", "SyntaxError", ": ", msg>>

\* The TypeError of reading json.status when json is null.
NullStatusError == <<"Cannot read properties of null (reading 'status')">>

\* The error a throwing dispatch (a reducer or a middleware that throws) raises.
StoreError == <<"store error">>

\* The calls made of a block of dispatch calls when the t-th one throws
\* (t = 0: none throws).
Made(acts, t) == IF t = 0 THEN acts ELSE SubSeq(acts, 1, t)


----------------------------------------------------------------------------
(* State *)

NetIdle ==
    [fetch |-> "none", fetchError |-> "", json |-> "none",
     value |-> JsonNull, jsonError |-> ""]

InitAPI ==
    /\ pc = [i \in Thunks |-> "idle"]
    /\ parameters = [i \in Thunks |-> <<>>]
    /\ fetchInit = [i \in Thunks |-> EmptyObj]
    /\ net = [i \in Thunks |-> NetIdle]
    /\ log = <<>>
    /\ mounted = TRUE

----------------------------------------------------------------------------
(* The thunk, one action per synchronous run *)

\* The parameters the thunk of invocation i reads: those of its own closure.
ParametersOfLatestCall(i) ==
    LET starts == {p \in 1..Len(log) : log[p].kind = "start"}
        last   == CHOOSE p \in starts : \A q \in starts : q <= p
    IN  parameters[log[last].inv][1]

ParametersOf(i) == parameters[i][1]

\* The catch block run with error.message = message; its t-th dispatch call
\* throws (t = 0: none), which rejects the thunk's promise.
CatchBlockRetries(i, d, message, t) ==
    LET acts == CatchDispatches(i, d, message)
    IN  [made |-> <<FetchCall(i, d, fetchInit[i])>> \o Made(acts, t),
         pc   |-> IF t = 0 THEN "done" ELSE "rejected"]

CatchBlock(i, d, message, t) ==
    LET acts == CatchDispatches(i, d, message)
    IN  [made |-> Made(acts, t), pc |-> IF t = 0 THEN "done" ELSE "rejected"]

\* The thunk from its first line to `await fetch(...)`.  The t-th dispatch call
\* throws (t = 0: none); these calls are outside the try block, so a throw
\* rejects the thunk's promise before fetch is called.
ThunkEntryReturnsEarly(i, thunk, t) ==
    LET d    == thunk.parameters
        acts == EntryDispatches(i, d)
    IN  IF Falsy(d.actionType)
        THEN [made |-> Made(acts, 1), pc |-> "done"]
        ELSE IF t = 0
        THEN [made |-> acts \o <<FetchCall(i, d, thunk.fetchInit)>>,
              pc   |-> "awaitFetch"]
        ELSE [made |-> Made(acts, t), pc |-> "rejected"]

ThunkEntry(i, thunk, t) ==
    LET d    == thunk.parameters
        acts == EntryDispatches(i, d)
    IN  IF t = 0
        THEN [made |-> acts \o <<FetchCall(i, d, thunk.fetchInit)>>,
              pc   |-> "awaitFetch"]
        ELSE [made |-> Made(acts, t), pc |-> "rejected"]

\* dispatch(thunk): the store's thunk middleware calls the thunk, which runs up
\* to its first await.
DispatchThunk(i, thunk, t) ==
    LET r == ThunkEntry(i, thunk, t)
    IN  /\ pc[i] = "idle"
        /\ t \in 0..Len(EntryDispatches(i, thunk.parameters))
        /\ parameters' = [parameters EXCEPT ![i] = <<thunk.parameters>>]
        /\ fetchInit' = [fetchInit EXCEPT ![i] = thunk.fetchInit]
        /\ log' = log \o r.made
        /\ pc' = [pc EXCEPT ![i] = r.pc]
        /\ net' = IF r.pc = "awaitFetch"
                  THEN [net EXCEPT ![i].fetch = "pending"]
                  ELSE net
        /\ UNCHANGED mounted

\* dispatch(thunk) by a caller that keeps no state of its own.
RunThunk(i, thunk, t) == DispatchThunk(i, thunk, t) /\ UNCHANGED tableVars

\* The promise of fetch resolves to a response.
FetchResolves(i) ==
    /\ pc[i] = "awaitFetch"
    /\ net[i].fetch = "pending"
    /\ net' = [net EXCEPT ![i].fetch = "resolved"]
    /\ UNCHANGED <<pc, parameters, fetchInit, log, mounted, tableVars>>

\* The promise of fetch rejects (a network failure).
FetchRejects(i) ==
    /\ pc[i] = "awaitFetch"
    /\ net[i].fetch = "pending"
    /\ \E e \in FetchErrors :
          net' = [net EXCEPT ![i].fetch = "rejected", ![i].fetchError = e]
    /\ UNCHANGED <<pc, parameters, fetchInit, log, mounted, tableVars>>

\* The thunk resumes from `await fetch(...)`: it calls response.json() and
\* suspends again, or runs the catch block on the rejection.
ResumeFetch(i, t) ==
    /\ pc[i] = "awaitFetch"
    /\ net[i].fetch \in {"resolved", "rejected"}
    /\ IF net[i].fetch = "resolved"
       THEN /\ t = 0
            /\ pc' = [pc EXCEPT ![i] = "awaitJson"]
            /\ net' = [net EXCEPT ![i].json = "pending"]
            /\ UNCHANGED log
       ELSE LET r == CatchBlock(i, ParametersOf(i), <<net[i].fetchError>>, t)
            IN  /\ t \in 0..2
                /\ log' = log \o r.made
                /\ pc' = [pc EXCEPT ![i] = r.pc]
                /\ UNCHANGED net
    /\ UNCHANGED <<parameters, fetchInit, mounted, tableVars>>

\* The promise of response.json() resolves to a decoded value of jsons.
JsonResolves(i, jsons) ==
    /\ pc[i] = "awaitJson"
    /\ net[i].json = "pending"
    /\ \E v \in jsons :
          net' = [net EXCEPT ![i].json = "resolved", ![i].value = v]
    /\ UNCHANGED <<pc, parameters, fetchInit, log, mounted, tableVars>>

\* The promise of response.json() rejects (the body is not JSON).
JsonRejects(i) ==
    /\ pc[i] = "awaitJson"
    /\ net[i].json = "pending"
    /\ \E e \in JsonErrors :
          net' = [net EXCEPT ![i].json = "rejected", ![i].jsonError = e]
    /\ UNCHANGED <<pc, parameters, fetchInit, log, mounted, tableVars>>

\* The thunk resumes from `await response.json()` and runs to its end.  The
\* t1-th dispatch call of the try block throws (t1 = 0: none), the t2-th of the
\* catch block throws (t2 = 0: none).
ResumeJson(i, t1, t2) ==
    LET d    == ParametersOf(i)
        json == net[i].value
        acts == TryDispatches(i, d, json)
        r    == CASE net[i].json = "rejected" ->
                       CatchBlock(i, d, JsonDecodingError(net[i].jsonError), t2)
                  [] net[i].json = "resolved" /\ json.isNull ->
                       CatchBlock(i, d, NullStatusError, t2)
                  [] net[i].json = "resolved" /\ ~json.isNull /\ t1 = 0 ->
                       [made |-> acts, pc |-> "done"]
                  [] OTHER ->
                       LET c == CatchBlock(i, d, StoreError, t2)
                       IN  [made |-> Made(acts, t1) \o c.made, pc |-> c.pc]
    IN  /\ pc[i] = "awaitJson"
        /\ net[i].json \in {"resolved", "rejected"}
        /\ t2 \in 0..2
        /\ IF net[i].json = "resolved" /\ ~json.isNull
           THEN t1 \in 0..Len(acts) /\ (t1 = 0 => t2 = 0)
           ELSE t1 = 0
        /\ log' = log \o r.made
        /\ pc' = [pc EXCEPT ![i] = r.pc]
        /\ UNCHANGED <<parameters, fetchInit, net, mounted, tableVars>>

\* The component that dispatched the thunks unmounts: nothing in the component
\* or in the thunk reacts to it.
UnmountCancels ==
    /\ mounted
    /\ mounted' = FALSE
    /\ log' = Append(log, Event(0, "unmount", EmptyObj, <<>>, <<>>))
    /\ pc' = [i \in Thunks |->
                 IF pc[i] \in {"awaitFetch", "awaitJson"} THEN "rejected" ELSE pc[i]]
    /\ UNCHANGED <<parameters, fetchInit, net, tableVars>>

Unmount ==
    /\ mounted
    /\ mounted' = FALSE
    /\ log' = Append(log, Event(0, "unmount", EmptyObj, <<>>, <<>>))
    /\ UNCHANGED <<pc, parameters, fetchInit, net, tableVars>>

----------------------------------------------------------------------------
(* Callers *)

OptBodies == {NotPassed} \cup {Passed(b) : b \in Bodies}

OptOtherArgs == {NotPassed} \cup {Passed(o) : o \in OtherArgsSet}

OptMethods == {NotPassed} \cup {Passed(m) : m \in Methods}

\* dispatch(API(endpoint, actionType, method, body, otherArgs))
InvokeAPI(i, throws) ==
    /\ pc[i] = "idle"
    /\ \E e \in Endpoints, a \in ActionTypes, m \in OptMethods,
          b \in OptBodies, o \in OptOtherArgs, t \in throws :
           RunThunk(i, API(e, a, m, b, o), t)

\* dispatch(GET(endpoint, actionType))
InvokeGET(i, types) ==
    /\ pc[i] = "idle"
    /\ \E e \in Endpoints, a \in types : RunThunk(i, GET(e, a), 0)

\* dispatch(POST(endpoint, actionType, payload))
InvokePOST(i, types, payloads) ==
    /\ pc[i] = "idle"
    /\ \E e \in Endpoints, a \in types, b \in payloads : RunThunk(i, POST(e, a, b), 0)

\* dispatch(PATCH(endpoint, actionType, payload))
InvokePATCH(i, types, payloads) ==
    /\ pc[i] = "idle"
    /\ \E e \in Endpoints, a \in types, b \in payloads : RunThunk(i, PATCH(e, a, b), 0)

\* dispatch(PUT(endpoint, actionType, payload))
InvokePUT(i, types, payloads) ==
    /\ pc[i] = "idle"
    /\ \E e \in Endpoints, a \in types, b \in payloads : RunThunk(i, PUT(e, a, b), 0)

\* dispatch(DELETE(endpoint, actionType, payload))
InvokeDELETE(i, types, payloads) ==
    /\ pc[i] = "idle"
    /\ \E e \in Endpoints, a \in types, b \in payloads : RunThunk(i, DELETE(e, a, b), 0)

----------------------------------------------------------------------------
(* SourceTable: strings, objects *)

\* A string of the table is the sequence of its characters, so that labels
\* are built by concatenation as the template literals build them.
EmptyString == <<>>

K_position == <<"p", "o", "s", "i", "t", "i", "o", "n">>

K_ra == <<"r", "a">>

K_dec == <<"d", "e", "c">>

K_radius == <<"r", "a", "d", "i", "u", "s">>

K_sourceID == <<"s", "o", "u", "r", "c", "e", "I", "D">>

K_startDate == <<"s", "t", "a", "r", "t", "D", "a", "t", "e">>

\* A field value: a string, or the position object {ra, dec, radius}.
StrV(str) == <<"str", str>>

PosV(ra, dec, radius) == <<"obj", ra, dec, radius>>

Range(seq) == {seq[k] : k \in 1..Len(seq)}

\* An object is the sequence of its <<key, value>> members in insertion order.
Has(obj, key) == \E k \in 1..Len(obj) : obj[k][1] = key

Get(obj, key) == obj[CHOOSE k \in 1..Len(obj) : obj[k][1] = key][2]

\* delete obj[key]
Delete(obj, key) == SelectSeq(obj, LAMBDA m : m[1] # key)

\* obj[key] = value
Set(obj, key, value) ==
    IF Has(obj, key)
    THEN [k \in 1..Len(obj) |-> IF obj[k][1] = key THEN <<key, value>> ELSE obj[k]]
    ELSE Append(obj, <<key, value>>)

\* What the filter form submits: position and the other fields of the form.
CoordinateInputs == {EmptyString, <<"1", "0">>}

TextInputs == {EmptyString, <<"Z", "T", "F">>}

FormDatas ==
    { << <<K_sourceID, StrV(id)>>,
         <<K_position, PosV(ra, dec, radius)>>,
         <<K_startDate, StrV(date)>> >> :
        id \in TextInputs, date \in TextInputs,
        ra \in CoordinateInputs, dec \in CoordinateInputs,
        radius \in CoordinateInputs }

\* The numPerPage prop.
NumPerPageOptions == {10, 25}

----------------------------------------------------------------------------
(* SourceTable: handleSaveSource, handleIgnoreSource *)

\* The rows of the requested sources and the groupID prop.
SourceIDs == {"s1", "s2"}

GroupIDs == {"g1", "g2"}

\* The handler suspended on `await dispatch(...)` of thunk i, if any, with the
\* sourceID it was called with and the groupID of its closure.
NoHandler ==
    [handler |-> "none", sourceID |-> "", groupID |-> "", returned |-> FALSE]

Handler(name, sourceID, groupID) ==
    [handler |-> name, sourceID |-> sourceID, groupID |-> groupID,
     returned |-> FALSE]

\* sourceActions.acceptSaveRequest({ sourceID, groupID }) and
\* sourceActions.declineSaveRequest({ sourceID, groupID }) of ../ducks/source:
\* thunks of the API wrapper.
acceptSaveRequest(sourceID, groupID) ==
    PATCH("/api/source_groups", "ACCEPT_SAVE_REQUEST",
          Passed(<< <<"sourceID", sourceID>>, <<"groupID", groupID>> >>))

declineSaveRequest(sourceID, groupID) ==
    PATCH("/api/source_groups", "DECLINE_SAVE_REQUEST",
          Passed(<< <<"sourceID", sourceID>>, <<"groupID", groupID>> >>))

\* One call of dispatch by the handler suspended on thunk i: the action
\* creator, its argument, and the length of the log when the call is made.
Dispatch(i, creator, args) ==
    [inv |-> i, creator |-> creator, args |-> args, at |-> Len(log)]

\* { sourceID, groupID }
RequestArgs(sourceID, groupID) == [sourceID |-> sourceID, groupID |-> groupID]

\* { group_ids: [groupID], pageNumber: 1, numPerPage: 10 }
FetchArgs(groupID) ==
    [group_ids |-> <<groupID>>, pageNumber |-> 1, numPerPage |-> 10]

\* The value of `await dispatch(thunk)` once thunk i has finished: the action
\* its last dispatch call returned.
Result(i) ==
    LET ps == {p \in 1..Len(log) : log[p].inv = i /\ log[p].kind = "terminal"}
    IN  log[CHOOSE p \in ps : \A q \in ps : q <= p].obj

\* The dispatch calls of handleSaveSource after its await.
SaveRefetchesAlways(i, groupID) ==
    <<Dispatch(i, "fetchPendingGroupSources", FetchArgs(groupID)),
      Dispatch(i, "fetchSavedGroupSources", FetchArgs(groupID))>>

SaveRefetches(i, groupID) ==
    IF pc[i] = "done" /\ Field(Result(i), "status") = "success"
    THEN <<Dispatch(i, "fetchPendingGroupSources", FetchArgs(groupID)),
           Dispatch(i, "fetchSavedGroupSources", FetchArgs(groupID))>>
    ELSE <<>>

\* The dispatch calls of handleIgnoreSource after its await.
IgnoreRefetches(i, groupID) ==
    IF pc[i] = "done" /\ Field(Result(i), "status") = "success"
    THEN <<Dispatch(i, "fetchPendingGroupSources", FetchArgs(groupID))>>
    ELSE <<>>

\* handleSaveSource(sourceID) up to its await.
handleSaveSource(i, sourceID, groupID) ==
    /\ awaiting[i] = NoHandler
    /\ DispatchThunk(i, acceptSaveRequest(sourceID, groupID), 0)
    /\ awaiting' = [awaiting EXCEPT
                       ![i] = Handler("handleSaveSource", sourceID, groupID)]
    /\ dispatched' = Append(dispatched,
                            Dispatch(i, "acceptSaveRequest",
                                     RequestArgs(sourceID, groupID)))
    /\ UNCHANGED <<filterVars, viewVars>>

\* handleSaveSource from its await to its end.  The thunks it dispatches run
\* as RunThunk runs them; they are not followed.
ResumeSaveSource(i) ==
    /\ pc[i] \in {"done", "rejected"}
    /\ awaiting[i].handler = "handleSaveSource"
    /\ ~awaiting[i].returned
    /\ dispatched' = dispatched \o SaveRefetches(i, awaiting[i].groupID)
    /\ awaiting' = [awaiting EXCEPT ![i].returned = TRUE]
    /\ UNCHANGED <<apiVars, filterVars, viewVars>>

\* handleIgnoreSource(sourceID) up to its await.
handleIgnoreSource(i, sourceID, groupID) ==
    /\ awaiting[i] = NoHandler
    /\ DispatchThunk(i, declineSaveRequest(sourceID, groupID), 0)
    /\ awaiting' = [awaiting EXCEPT
                       ![i] = Handler("handleIgnoreSource", sourceID, groupID)]
    /\ dispatched' = Append(dispatched,
                            Dispatch(i, "declineSaveRequest",
                                     RequestArgs(sourceID, groupID)))
    /\ UNCHANGED <<filterVars, viewVars>>

\* handleIgnoreSource from its await to its end.
ResumeIgnoreSource(i) ==
    /\ pc[i] \in {"done", "rejected"}
    /\ awaiting[i].handler = "handleIgnoreSource"
    /\ ~awaiting[i].returned
    /\ dispatched' = dispatched \o IgnoreRefetches(i, awaiting[i].groupID)
    /\ awaiting' = [awaiting EXCEPT ![i].returned = TRUE]
    /\ UNCHANGED <<apiVars, filterVars, viewVars>>

----------------------------------------------------------------------------
(* SourceTable: handleFilterSubmit *)

\* filterOutEmptyValues of ../API: the object without the keys whose value is
\* empty.
filterOutEmptyValues(params) ==
    SelectSeq(params, LAMBDA m : m[2] # StrV(EmptyString))

\* "Remove empty position": delete formData.position when ra, dec and radius
\* are all the empty string.
RemoveEmptyPositionNever(formData) == formData

RemoveEmptyPosition(formData) ==
    LET position == Get(formData, K_position)
    IN  IF /\ position[2] = EmptyString
           /\ position[3] = EmptyString
           /\ position[4] = EmptyString
        THEN Delete(formData, K_position)
        ELSE formData

\* The label of one entry of the filter set.
ChipLabel(key, value) ==
    IF key = K_position
    THEN K_position \o <<":", " ">> \o value[2] \o <<" ", "(", "R", "A", ")", ",", " ">>
         \o value[3] \o <<" ", "(", "D", "e", "c", ")", ",", " ">>
         \o value[4] \o <<" ", "(", "R", "a", "d", "i", "u", "s", ")">>
    ELSE key \o <<":", " ">> \o value[2]

\* "Expand cone search params": position becomes the keys ra, dec, radius.
ExpandPosition(data) ==
    IF Has(data, K_position)
    THEN LET position == Get(data, K_position)
             withRa   == Set(data, K_ra, StrV(position[2]))
             withDec  == Set(withRa, K_dec, StrV(position[3]))
             withRad  == Set(withDec, K_radius, StrV(position[4]))
         IN  Delete(withRad, K_position)
    ELSE data

\* paginateCallback(pageNumber, numPerPage, sortOrder, filters), with the
\* handler that called it and the argument that handler was given.
Call(handler, input, pageNumber, perPage, sortOrder, filters) ==
    [callback |-> "paginateCallback", handler |-> handler, input |-> input,
     pageNumber |-> pageNumber, numPerPage |-> perPage,
     sortOrder |-> sortOrder, filters |-> filters]

\* let defaultDisplayedColumns = [...]
DefaultColumns ==
    <<"Source ID", "Favorites", "RA (deg)", "Dec (deg)", "Redshift",
      "Classification", "Groups", "Date Saved", "Finder">>

\* One first render of a SourceTable: its prop and the initial value of its
\* displayedColumns state.
Mounted(favoritesRemoveButton, columns) ==
    [favoritesRemoveButton |-> favoritesRemoveButton, displayedColumns |-> columns]

\* One SourceTable with favoritesRemoveButton false, after its first render.
InitTable(numPerPages) ==
    /\ tableFilterList = <<>>
    /\ filterFormData = <<>>
    /\ numPerPage \in numPerPages
    /\ rowsPerPage = numPerPage
    /\ calls = <<>>
    /\ defaultDisplayedColumns = DefaultColumns
    /\ displayedColumns = DefaultColumns
    /\ mounts = <<Mounted(FALSE, DefaultColumns)>>
    /\ awaiting = [i \in Thunks |-> NoHandler]
    /\ dispatched = <<>>

handleFilterSubmit(formData) ==
    LET kept == RemoveEmptyPosition(formData)
        data == filterOutEmptyValues(kept)
        flat == ExpandPosition(data)
    IN  /\ tableFilterList' =
              [k \in 1..Len(data) |-> ChipLabel(data[k][1], data[k][2])]
        /\ filterFormData' = <<flat>>
        /\ calls' = Append(calls, Call("handleFilterSubmit", formData,
                                       1, rowsPerPage, <<>>, flat))
        /\ UNCHANGED <<rowsPerPage, numPerPage, viewVars, apiVars, requestVars>>

----------------------------------------------------------------------------
(* SourceTable: first render *)

\* The module is loaded and no SourceTable is rendered yet: there is no
\* component state, and no displayed column.
InitModule ==
    /\ defaultDisplayedColumns = DefaultColumns
    /\ mounts = <<>>
    /\ displayedColumns = <<>>
    /\ tableFilterList = <<>>
    /\ filterFormData = <<>>
    /\ numPerPage = 10
    /\ rowsPerPage = 10
    /\ calls = <<>>
    /\ awaiting = [i \in Thunks |-> NoHandler]
    /\ dispatched = <<>>

\* defaultDisplayedColumns after the body of the component ran with the prop.
FilterFavorites(columns, favoritesRemoveButton) ==
    IF favoritesRemoveButton
    THEN SelectSeq(columns, LAMBDA c : c # "Favorites")
    ELSE columns

\* The first render of a new SourceTable instance, whose state is the state
\* followed from then on: the body of the component down to its useState
\* calls.
SourceTable(favoritesRemoveButton, perPage) ==
    LET columns == FilterFavorites(defaultDisplayedColumns, favoritesRemoveButton)
    IN  /\ defaultDisplayedColumns' = columns
        /\ displayedColumns' = columns
        /\ tableFilterList' = <<>>
        /\ filterFormData' = <<>>
        /\ numPerPage' = perPage
        /\ rowsPerPage' = perPage
        /\ mounts' = Append(mounts, Mounted(favoritesRemoveButton, columns))
        /\ UNCHANGED <<calls, apiVars, requestVars>>

----------------------------------------------------------------------------
(* SourceTable: handleTableChange *)

\* sortingCallback(sortOrder, filters), with the handler that called it and
\* the argument that handler was given.
SortingCall(handler, input, sortOrder, filters) ==
    [callback |-> "sortingCallback", handler |-> handler, input |-> input,
     sortOrder |-> sortOrder, filters |-> filters]

\* The columns of the table, by label (by name where no label is given).
ColumnLabels ==
    <<"Source ID", "Favorites", "Alias", "RA (deg)", "Dec (deg)",
      "RA (hh:mm:ss)", "Dec (dd:mm:ss)", "Redshift", "Classification",
      "Groups", "Date Saved", "Finder", "Spectrum?", "Peak Magnitude",
      "Latest Magnitude", "TNS Name">>

\* tableState.columns when the columns of shown are the displayed ones.
TableColumns(shown) ==
    [k \in 1..Len(ColumnLabels) |->
        [label   |-> ColumnLabels[k],
         display |-> IF ColumnLabels[k] \in shown THEN "true" ELSE "false"]]

\* tableState.sortOrder: {} before any sort, else { name, direction }.
SortOrder(name, direction) == << <<"name", name>>, <<"direction", direction>> >>

\* The state the table library hands to onTableChange.
TableState(page, perPage, sortOrder, columns) ==
    [page |-> page, rowsPerPage |-> perPage, sortOrder |-> sortOrder,
     columns |-> columns]

\* columns.filter((column) => column.display === "true").map((column) => column.label)
DisplayedLabels(columns) ==
    LET shown == SelectSeq(columns, LAMBDA column : column.display = "true")
    IN  [k \in 1..Len(shown) |-> shown[k].label]

\* The filters argument of the calls of handleTableChange is filterFormData as
\* stored: <<>> for null, <<data>> for the object data.
SortWithoutFilters(action, tableState) ==
    IF action \in {"changePage", "changeRowsPerPage"}
    THEN <<Call("handleTableChange", action, tableState.page + 1,
                tableState.rowsPerPage, tableState.sortOrder, filterFormData)>>
    ELSE IF action = "sort"
    THEN IF Get(tableState.sortOrder, "direction") = "none"
         THEN <<Call("handleTableChange", action, 1, tableState.rowsPerPage,
                     <<>>, <<>>)>>
         ELSE <<SortingCall("handleTableChange", action, tableState.sortOrder,
                            <<>>)>>
    ELSE <<>>

\* The calls of paginateCallback and sortingCallback of handleTableChange.
TableChangeCalls(action, tableState) ==
    IF action \in {"changePage", "changeRowsPerPage"}
    THEN <<Call("handleTableChange", action, tableState.page + 1,
                tableState.rowsPerPage, tableState.sortOrder, filterFormData)>>
    ELSE IF action = "sort"
    THEN IF Get(tableState.sortOrder, "direction") = "none"
         THEN <<Call("handleTableChange", action, 1, tableState.rowsPerPage,
                     <<>>, filterFormData)>>
         ELSE <<SortingCall("handleTableChange", action, tableState.sortOrder,
                            filterFormData)>>
    ELSE <<>>

handleTableChange(action, tableState) ==
    LET made == TableChangeCalls(action, tableState)
    IN  /\ calls' = calls \o made
        /\ rowsPerPage' = IF action \in {"changePage", "changeRowsPerPage"}
                          THEN tableState.rowsPerPage
                          ELSE rowsPerPage
        /\ displayedColumns' = IF action = "viewColumnsChange"
                               THEN DisplayedLabels(tableState.columns)
                               ELSE displayedColumns
        /\ UNCHANGED <<tableFilterList, filterFormData, numPerPage,
                       defaultDisplayedColumns, mounts, apiVars, requestVars>>

----------------------------------------------------------------------------
(* SourceTable: handleTableFilterChipChange *)

\* The place of the first occurrence of sep in str, 0 when there is none.
IndexOf(str, sep) ==
    LET at == {k \in 1..(Len(str) - Len(sep) + 1) :
                 SubSeq(str, k, k + Len(sep) - 1) = sep}
    IN  IF at = {} THEN 0 ELSE CHOOSE k \in at : \A j \in at : k <= j

\* str.split(sep), sep a string that is not empty.
RECURSIVE Split(_, _)
Split(str, sep) ==
    LET k == IndexOf(str, sep)
    IN  IF k = 0 THEN <<str>>
        ELSE <<SubSeq(str, 1, k - 1)>>
             \o Split(SubSeq(str, k + Len(sep), Len(str)), sep)

Digits == {"0", "1", "2", "3", "4", "5", "6", "7", "8", "9"}

\* The greatest e >= from - 1 with every character of str[from..e] in set.
RunEnd(str, from, set) ==
    LET ends == {e \in (from - 1)..Len(str) :
                   \A j \in from..e : str[j] \in set}
    IN  CHOOSE e \in ends : \A j \in ends : j <= e

\* The last character of the match of /\s*\(\D*\),*\s*/ that starts at k,
\* 0 when the pattern does not match there: white space, "(", as many
\* characters that are not digits as leave a ")" to follow, commas, white
\* space.
MatchEnd(str, k) ==
    LET open == RunEnd(str, k, {" "}) + 1
    IN  IF open > Len(str) THEN 0
        ELSE IF str[open] # "(" THEN 0
        ELSE LET ends   == {e \in open..Len(str) :
                              \A j \in (open + 1)..e : str[j] \notin Digits}
                 closes == {j \in ends : j > open /\ str[j] = ")"}
             IN  IF closes = {} THEN 0
                 ELSE LET close  == CHOOSE j \in closes : \A i \in closes : i <= j
                          commas == RunEnd(str, close + 1, {","})
                      IN  RunEnd(str, commas + 1, {" "})

\* value.split(/\s*\(\D*\),*\s*/)
RECURSIVE SplitFields(_)
SplitFields(str) ==
    LET at == {k \in 1..Len(str) : MatchEnd(str, k) > 0}
    IN  IF at = {} THEN <<str>>
        ELSE LET k == CHOOSE k \in at : \A j \in at : k <= j
             IN  <<SubSeq(str, 1, k - 1)>>
                 \o SplitFields(SubSeq(str, MatchEnd(str, k) + 1, Len(str)))

\* The value undefined among the values of a filter set.
UndefinedV == <<"undefined">>

\* The k-th element of an array as a filter value, undefined past its end.
Element(array, k) == IF k <= Len(array) THEN StrV(array[k]) ELSE UndefinedV

\* `value.split(...)` of a label without ": ": a TypeError.
ChipThrows(filterChip) ==
    LET parts == Split(filterChip, <<":", " ">>)
    IN  parts[1] = K_position /\ Len(parts) < 2

\* The body of the forEach for one chip: data after it.
ChipToDataKeepsPosition(data, filterChip) ==
    LET parts == Split(filterChip, <<":", " ">>)
    IN  Set(data, parts[1], Element(parts, 2))

ChipToData(data, filterChip) ==
    LET parts == Split(filterChip, <<":", " ">>)
        key   == parts[1]
    IN  IF key = K_position
        THEN LET fields  == SplitFields(parts[2])
                 withRa  == Set(data, K_ra, Element(fields, 1))
                 withDec == Set(withRa, K_dec, Element(fields, 2))
             IN  Set(withDec, K_radius, Element(fields, 3))
        ELSE Set(data, key, Element(parts, 2))

\* "Convert chip filter list to filter form data"
RECURSIVE ChipsToData(_, _)
ChipsToData(data, chips) ==
    IF chips = <<>> THEN data
    ELSE ChipsToData(ChipToData(data, Head(chips)), Tail(chips))

\* handleTableFilterChipChange(column, filterList, type); filterList[0], the
\* chips of the first column, is filterList[1] here.  A chip that throws ends
\* the handler before any state is set.
handleTableFilterChipChange(column, filterList, type) ==
    LET sourceFilterList == filterList[1]
        data == ChipsToData(<<>>, sourceFilterList)
    IN  IF type = "chip" /\ \A k \in 1..Len(sourceFilterList) :
                                ~ChipThrows(sourceFilterList[k])
        THEN /\ tableFilterList' = sourceFilterList
             /\ filterFormData' = <<data>>
             /\ calls' = Append(calls, Call("handleTableFilterChipChange",
                                            sourceFilterList, 1, rowsPerPage,
                                            <<>>, data))
             /\ UNCHANGED <<rowsPerPage, numPerPage, viewVars, apiVars, requestVars>>
        ELSE UNCHANGED vars

----------------------------------------------------------------------------
(* Specifications *)

Init == InitAPI /\ InitTable({10})

\* One invocation, every argument and every response, a store whose dispatch
\* returns.
Invoke ==
    \/ InvokeAPI(1, {0})
    \/ InvokeGET(1, ActionTypes)
    \/ InvokePOST(1, ActionTypes, OptBodies)
    \/ InvokePATCH(1, ActionTypes, OptBodies)
    \/ InvokePUT(1, ActionTypes, OptBodies)
    \/ InvokeDELETE(1, ActionTypes, OptBodies)

Settle ==
    \/ FetchResolves(1)
    \/ FetchRejects(1)
    \/ JsonResolves(1, JsonValues)
    \/ JsonRejects(1)

Resume ==
    \/ ResumeFetch(1, 0)
    \/ ResumeJson(1, 0, 0)

Next == Invoke \/ Settle \/ Resume

Spec == Init /\ [][Next]_vars

\* One invocation against a store whose dispatch may throw on any call.
StoreThrows ==
    \/ InvokeAPI(1, 1..2)
    \/ \E t \in 1..2 : ResumeFetch(1, t)
    \/ \E t1 \in 0..2, t2 \in 0..2 : t1 + t2 > 0 /\ ResumeJson(1, t1, t2)

NextStoreThrows == Next \/ StoreThrows

SpecStoreThrows == Init /\ [][NextStoreThrows]_vars

\* Several invocations in flight at once, started in the order 1, 2, ...: a
\* GET and a POST with the responses the backend gives, one of them carrying
\* a type field of its own.
FewJsonValues ==
    { JsonObj([status |-> "success", data |-> "X"]),
      JsonObj([status |-> "error", message |-> "m"]),
      JsonObj([status |-> "success", type |-> "SAVE_SOURCE_OK"]) }

FewPayloads == { Passed(<< <<"sourceID", "s1">> >>) }

Started(i) == IF i = 1 THEN TRUE ELSE pc[i - 1] # "idle"

NextConcurrent ==
    \/ \E i \in Thunks :
        \/ Started(i) /\ InvokeGET(i, {"FETCH_SOURCES"})
        \/ Started(i) /\ InvokePOST(i, {"SAVE_SOURCE"}, FewPayloads)
        \/ FetchResolves(i)
        \/ FetchRejects(i)
        \/ JsonResolves(i, FewJsonValues)
        \/ JsonRejects(i)
        \/ ResumeFetch(i, 0)
        \/ ResumeJson(i, 0, 0)
    \/ Unmount

SpecConcurrent == Init /\ [][NextConcurrent]_vars

\* Invocations of one GET in flight at once, under the scheduling JavaScript
\* guarantees: the job queue runs the continuation of every settled promise;
\* nothing makes a pending promise settle.
NextLive ==
    \/ \E i \in Thunks :
        \/ Started(i) /\ InvokeGET(i, {"FETCH_SOURCES"})
        \/ FetchResolves(i)
        \/ FetchRejects(i)
        \/ JsonResolves(i, {JsonObj([status |-> "success", data |-> "X"])})
        \/ JsonRejects(i)
        \/ ResumeFetch(i, 0)
        \/ ResumeJson(i, 0, 0)
    \/ Unmount

SpecLive ==
    /\ Init
    /\ [][NextLive]_vars
    /\ \A i \in Thunks : WF_vars(ResumeFetch(i, 0)) /\ WF_vars(ResumeJson(i, 0, 0))

\* The Save and Decline buttons of the rows of a table of requested sources,
\* under the scheduling JavaScript guarantees: the job queue runs the
\* continuation of every settled promise.
RequestJsonValues ==
    { JsonObj([status |-> "success"]),
      JsonObj([status |-> "error", message |-> "m"]) }

NextRequested ==
    \E i \in Requests :
        \/ /\ Started(i)
           /\ \E sourceID \in SourceIDs, groupID \in GroupIDs :
                 handleSaveSource(i, sourceID, groupID)
        \/ /\ Started(i)
           /\ \E sourceID \in SourceIDs, groupID \in GroupIDs :
                 handleIgnoreSource(i, sourceID, groupID)
        \/ FetchResolves(i)
        \/ FetchRejects(i)
        \/ JsonResolves(i, RequestJsonValues)
        \/ JsonRejects(i)
        \/ ResumeFetch(i, 0)
        \/ ResumeJson(i, 0, 0)
        \/ ResumeSaveSource(i)
        \/ ResumeIgnoreSource(i)

SpecRequested ==
    /\ Init
    /\ [][NextRequested]_vars
    /\ \A i \in Requests :
          /\ WF_vars(ResumeFetch(i, 0))
          /\ WF_vars(ResumeJson(i, 0, 0))
          /\ WF_vars(ResumeSaveSource(i))
          /\ WF_vars(ResumeIgnoreSource(i))

\* The filter form of one SourceTable, submitted again and again.
NextTable ==
    /\ Len(calls) < MaxCalls
    /\ \E formData \in FormDatas : handleFilterSubmit(formData)

InitSourceTable == InitAPI /\ InitTable(NumPerPageOptions)

SpecTable == InitSourceTable /\ [][NextTable]_vars

----------------------------------------------------------------------------
(* The table with every handler *)

\* The forms submitted: no filter, a text filter, a text filter and a cone
\* search.
FewFormDatas ==
    { << <<K_sourceID, StrV(id)>>,
         <<K_position, PosV(c, c, c)>>,
         <<K_startDate, StrV(EmptyString)>> >> :
        id \in TextInputs, c \in CoordinateInputs } \
    { << <<K_sourceID, StrV(EmptyString)>>,
         <<K_position, PosV(<<"1", "0">>, <<"1", "0">>, <<"1", "0">>)>>,
         <<K_startDate, StrV(EmptyString)>> >> }

\* rowsPerPageOptions, the first of them.
RowsPerPageOptions == {10, 25}

\* The columns whose visibility the user toggles.
ToggledColumns == {"Favorites", "Alias"}

\* seq without its k-th element (seq itself for k = 0).
RemoveAt(seq, k) ==
    [j \in 1..(Len(seq) - (IF k = 0 THEN 0 ELSE 1)) |->
        IF k = 0 \/ j < k THEN seq[j] ELSE seq[j + 1]]

\* The labels of shown with label toggled.
Toggle(shown, label) ==
    IF label \in shown THEN shown \ {label} ELSE shown \cup {label}

Following == Len(calls) < MaxTableCalls

\* The filter form.
SubmitFilter ==
    /\ Following
    /\ \E formData \in FewFormDatas : handleFilterSubmit(formData)

\* The filter chips of the first column: one chip removed (or none), or the
\* filters reset.
ChangeFilter ==
    /\ Following
    /\ \E k \in 0..Len(tableFilterList), type \in {"chip", "reset"} :
          handleTableFilterChipChange("id", <<RemoveAt(tableFilterList, k)>>, type)

\* The pagination footer.
ChangePage ==
    /\ Following
    /\ \E action \in {"changePage", "changeRowsPerPage"},
          perPage \in RowsPerPageOptions :
          handleTableChange(action,
              TableState(1, perPage, <<>>, TableColumns(Range(displayedColumns))))

\* A column header.
SortColumn ==
    /\ Following
    /\ \E direction \in {"asc", "none"} :
          handleTableChange("sort",
              TableState(0, rowsPerPage, SortOrder("ra", direction),
                         TableColumns(Range(displayedColumns))))

\* The view-columns menu, and a change the handler has no case for.
ViewColumns ==
    \E action \in {"viewColumnsChange", "propsUpdate"},
       label \in ToggledColumns :
        handleTableChange(action,
            TableState(0, rowsPerPage, <<>>,
                       TableColumns(Toggle(Range(displayedColumns), label))))

NextSourceTable ==
    \/ SubmitFilter
    \/ ChangeFilter
    \/ ChangePage
    \/ SortColumn
    \/ ViewColumns

SpecSourceTable == InitSourceTable /\ [][NextSourceTable]_vars

\* One form submitted, then its chips handed back to the table: all of them,
\* or all but one.  The forms have texts with and without ": " and cone
\* searches that are empty, partly filled in, numbers, a number followed by a
\* blank, or not numbers.
DelimitedText == <<"a", ":", " ", "b">>

RoundTripCoordinates == {<<"1", " ">>, <<"x">>}

RoundTripForms ==
    { << <<K_sourceID, StrV(id)>>,
         <<K_position, PosV(ra, dec, radius)>>,
         <<K_startDate, StrV(date)>> >> :
        id \in TextInputs \cup {DelimitedText}, date \in TextInputs,
        ra \in CoordinateInputs, dec \in CoordinateInputs,
        radius \in CoordinateInputs }
    \cup
    { << <<K_sourceID, StrV(id)>>,
         <<K_position, PosV(c, c, c)>>,
         <<K_startDate, StrV(EmptyString)>> >> :
        id \in TextInputs, c \in RoundTripCoordinates }

SubmitOnce ==
    /\ calls = <<>>
    /\ \E formData \in RoundTripForms : handleFilterSubmit(formData)

ChipsBack ==
    /\ calls # <<>>
    /\ Len(calls) < MaxCalls
    /\ \E k \in 0..Len(tableFilterList) :
          handleTableFilterChipChange("id", <<RemoveAt(tableFilterList, k)>>, "chip")

NextRoundTrip == SubmitOnce \/ ChipsBack

SpecRoundTrip == Init /\ [][NextRoundTrip]_vars

\* One page session: the pages of the application mount one SourceTable after
\* another, with and without favoritesRemoveButton, and the user toggles
\* columns of the table on display.
MountTable ==
    /\ Len(mounts) < MaxTables
    /\ \E favoritesRemoveButton \in BOOLEAN, perPage \in NumPerPageOptions :
          SourceTable(favoritesRemoveButton, perPage)

ToggleColumn == mounts # <<>> /\ ViewColumns

NextPage == MountTable \/ ToggleColumn

InitPage == InitAPI /\ InitModule

SpecPage == InitPage /\ [][NextPage]_vars

----------------------------------------------------------------------------
(* Reading the log *)

\* The calls of dispatch and fetch made by invocation i, in order.
EventsOf(i) == SelectSeq(log, LAMBDA e : e.inv = i)

\* The positions in the log of the events of invocation i of a kind.
At(i, kind) == {p \in 1..Len(log) : log[p].inv = i /\ log[p].kind = kind}

\* The calls of dispatch invocation i made after its start action.
AfterStart(i) ==
    LET evs == EventsOf(i)
        k   == CHOOSE p \in 1..Len(evs) : evs[p].kind = "start"
    IN  SelectSeq(SubSeq(evs, k + 1, Len(evs)), LAMBDA e : e.kind # "fetch")

Invoked(i) == pc[i] # "idle"

Finished(i) == pc[i] \in {"done", "rejected"}

TerminalTypes(actionType) ==
    {Str(actionType) \o suffix : suffix \in {"_OK", "_ERROR", "_FAIL"}}

\* e is the action { type: actionType, parameters } of descriptor d.
IsStartAction(e, d) ==
    /\ e.kind \in {"start", "terminal"}
    /\ e.obj = [type |-> d.actionType]
    /\ e.params = <<d>>

\* e is an action whose type is d's actionType with a terminal suffix.
IsTerminalAction(e, d) ==
    /\ e.kind \in {"start", "terminal"}
    /\ e.obj.type \in TerminalTypes(d.actionType)

DecodedObject(i) == net[i].json = "resolved" /\ ~net[i].value.isNull

----------------------------------------------------------------------------
(* Claims *)

\* C1: every invocation dispatches exactly one start action
\* {type: actionType, parameters} and, after it, exactly one terminal action
\* whose type is actionType suffixed with _OK, _ERROR or _FAIL; never a second
\* terminal action.
OneStartThenOneTerminal ==
    \A i \in Thunks :
        Invoked(i) =>
            LET d      == ParametersOf(i)
                starts == {p \in 1..Len(log) :
                              log[p].inv = i /\ IsStartAction(log[p], d)}
                terms  == {p \in 1..Len(log) :
                              log[p].inv = i /\ IsTerminalAction(log[p], d)}
            IN  /\ Cardinality(starts) = 1
                /\ Cardinality(terms) <= 1
                /\ \A p \in starts, q \in terms : p < q
                /\ Finished(i) => Cardinality(terms) = 1

\* C2: when the decoded JSON has status "success", the terminal action's type
\* is actionType + "_OK" and every field of the decoded JSON is in the action
\* with its value.
SuccessYieldsOkWithEveryField ==
    \A i \in Thunks :
        (Finished(i) /\ DecodedObject(i)
            /\ Field(net[i].value.obj, "status") = "success") =>
            LET json == net[i].value.obj
                rest == AfterStart(i)
            IN  /\ Len(rest) = 1
                /\ rest[1].obj.type = Str(ParametersOf(i).actionType) \o "_OK"
                /\ \A k \in DOMAIN json :
                      k \in DOMAIN rest[1].obj /\ rest[1].obj[k] = json[k]

\* C3: when the decoded JSON has another status than "success", the thunk
\* dispatches a notification containing the decoded message, then a terminal
\* action of type actionType + "_ERROR" carrying the decoded message and the
\* other decoded fields, and no _OK action.
NonSuccessYieldsNotifyThenError ==
    \A i \in Thunks :
        (Finished(i) /\ DecodedObject(i)
            /\ Field(net[i].value.obj, "status") # "success") =>
            LET json == net[i].value.obj
                at   == Str(ParametersOf(i).actionType)
                rest == AfterStart(i)
            IN  /\ Len(rest) = 2
                /\ rest[1].kind = "notify"
                /\ Str(Field(json, "message")) \in Range(rest[1].text)
                /\ rest[2].kind = "terminal"
                /\ rest[2].obj.type = at \o "_ERROR"
                /\ \A k \in (DOMAIN json) \ {"type"} :
                      k \in DOMAIN rest[2].obj /\ rest[2].obj[k] = json[k]
                /\ \A e \in Range(EventsOf(i)) :
                      e.kind = "terminal" => e.obj.type # at \o "_OK"

\* C4: when fetch rejects or the body does not decode, the thunk dispatches a
\* notification containing the exception's message and then the action
\* {type: actionType + "_FAIL", parameters}, parameters being the descriptor of
\* the request, and nothing of a response.
FailureYieldsNotifyThenFail ==
    \A i \in Thunks :
        (Finished(i) /\ (net[i].fetch = "rejected" \/ net[i].json = "rejected")) =>
            LET d    == ParametersOf(i)
                msg  == IF net[i].fetch = "rejected"
                        THEN net[i].fetchError ELSE net[i].jsonError
                rest == AfterStart(i)
            IN  /\ pc[i] = "done"
                /\ Len(rest) = 2
                /\ rest[1].kind = "notify"
                /\ msg \in Range(rest[1].text)
                /\ rest[2].kind = "terminal"
                /\ rest[2].obj = [type |-> Str(d.actionType) \o "_FAIL"]
                /\ rest[2].params = <<d>>
                /\ DOMAIN d = {"endpoint", "actionType", "body", "method", "otherArgs"}
                /\ \E p \in At(i, "start") : log[p].params = rest[2].params
                /\ \E p \in At(i, "fetch") : log[p].text = <<d.endpoint>>

DecodeFailureReported ==
    \E i \in Thunks : pc[i] = "done" /\ net[i].json = "rejected"

\* C5: with an empty or undefined actionType the thunk dispatches the
\* notification 'API invocation error: no actionType specified', then the start
\* action, calls fetch and dispatches a terminal action; it never aborts.
MissingActionTypeStillRuns ==
    \A i \in Thunks :
        (Invoked(i) /\ Falsy(ParametersOf(i).actionType)) =>
            LET evs == EventsOf(i)
            IN  /\ pc[i] # "rejected"
                /\ Len(evs) >= 3
                /\ evs[1] = ShowNotification(i, <<NoActionTypeMsg>>)
                /\ evs[2].kind = "start"
                /\ evs[2].obj = [type |-> ParametersOf(i).actionType]
                /\ evs[3].kind = "fetch"
                /\ pc[i] = "done" => evs[Len(evs)].kind = "terminal"

MissingActionTypeCompleted ==
    \E i \in Thunks :
        /\ pc[i] = "done"
        /\ ParametersOf(i).actionType = Undefined
        /\ net[i].json = "resolved"

\* C6: every invocation calls fetch exactly once, after its start action and
\* before its terminal action, whatever the outcome.
SingleFetchBetweenStartAndTerminal ==
    \A i \in Thunks :
        Invoked(i) =>
            /\ Cardinality(At(i, "fetch")) = 1
            /\ \A f \in At(i, "fetch") :
                  /\ \E p \in At(i, "start") : p < f
                  /\ \A q \in At(i, "terminal") : f < q
            /\ pc[i] = "done" => At(i, "terminal") # {}

FailedWithoutRetry ==
    \E i \in Thunks : pc[i] = "done" /\ net[i].fetch = "rejected"

\* C7 as written: the request carries a body equal to the JSON serialization
\* of the body argument exactly when method is not GET.
SerializedBodyIffNotGet ==
    \A p \in 1..Len(log) :
        log[p].kind = "fetch" =>
            LET d    == parameters[log[p].inv][1]
                init == log[p].obj
            IN  ("body" \in DOMAIN init /\ init.body = Stringify(d.body))
                    <=> d.method # "GET"

\* C7 as amended: for every method but GET the request carries the JSON
\* serialization of the body argument; for GET it carries a body only when
\* otherArgs has a body key, and then that value.
SerializedBodyUnlessGet ==
    \A p \in 1..Len(log) :
        log[p].kind = "fetch" =>
            LET d    == parameters[log[p].inv][1]
                init == log[p].obj
            IN  IF d.method # "GET"
                THEN "body" \in DOMAIN init /\ init.body = Stringify(d.body)
                ELSE /\ "body" \in DOMAIN init <=> "body" \in DOMAIN d.otherArgs
                     /\ "body" \in DOMAIN init => init.body = d.otherArgs.body

DeleteSendsPayload ==
    \E p \in 1..Len(log) :
        /\ log[p].kind = "fetch"
        /\ parameters[log[p].inv][1].method = "DELETE"
        /\ parameters[log[p].inv][1].body = << <<"sourceID", "s1">> >>
        /\ parameters[log[p].inv][1].otherArgs = EmptyObj
        /\ log[p].obj.body = "{\"sourceID\":\"s1\"}"

\* C8: invocations in flight together do not interfere: the actions of each
\* are made of its own actionType, parameters and response, its start action
\* precedes its terminal action, and it dispatches one terminal action.
InvocationsDoNotInterfere ==
    \A i \in Thunks :
        Invoked(i) =>
            LET d    == parameters[i][1]
                json == net[i].value.obj
                evs  == EventsOf(i)
            IN  /\ evs[1] = StartAction(i, d)
                /\ evs[2] = FetchCall(i, d, FetchInit(d.method, d.body, d.otherArgs))
                /\ Cardinality(At(i, "terminal")) = IF pc[i] = "done" THEN 1 ELSE 0
                /\ \A q \in At(i, "terminal") :
                      /\ \A p \in At(i, "start") : p < q
                      /\ log[q].obj.type \in
                            TerminalTypes(d.actionType)
                            \cup {json[k] : k \in (DOMAIN json) \cap {"type"}}
                      /\ log[q].params \in {<<>>, <<d>>}
                      /\ log[q].params = <<d>> <=>
                            (net[i].fetch = "rejected" \/ net[i].json = "rejected")
                      /\ \A k \in (DOMAIN log[q].obj) \ {"type"} :
                            DecodedObject(i) /\ k \in DOMAIN json
                                /\ log[q].obj[k] = json[k]

TerminalsOutOfStartOrder ==
    \E s1 \in At(1, "start"), s2 \in At(2, "start"),
       t1 \in At(1, "terminal"), t2 \in At(2, "terminal") :
        s1 < s2 /\ s2 < t2 /\ t2 < t1

\* C9 as written: once the promise of fetch settles, the invocation
\* eventually dispatches its terminal action and finishes.
Completed(i) == pc[i] = "done" /\ At(i, "terminal") # {}

SettledFetchLeadsToTerminal ==
    \A i \in Thunks :
        (net[i].fetch \in {"resolved", "rejected"}) ~> Completed(i)

\* C9 as amended: once the promise of fetch rejects, or resolves and the
\* promise of response.json() settles too, the invocation eventually dispatches
\* its terminal action and finishes; no step, the unmounting of the component
\* included, takes an invocation in flight anywhere but forward, or takes a
\* dispatched action back.
ExchangeSettled(i) ==
    net[i].fetch = "rejected" \/ net[i].json \in {"resolved", "rejected"}

NoCancellation ==
    /\ SubSeq(log', 1, Len(log)) = log
    /\ \A i \in Thunks :
          /\ pc[i] = "awaitFetch" => pc'[i] \in {"awaitFetch", "awaitJson", "done"}
          /\ pc[i] = "awaitJson" => pc'[i] \in {"awaitJson", "done"}
          /\ pc[i] = "done" => pc'[i] = "done"

SettledExchangeLeadsToTerminal ==
    /\ \A i \in Thunks : ExchangeSettled(i) ~> Completed(i)
    /\ [][NoCancellation]_vars

TerminalAfterUnmount ==
    \E p \in 1..Len(log), q \in 1..Len(log) :
        p < q /\ log[p].kind = "unmount" /\ log[q].kind = "terminal"

\* C10: a submission whose position has ra, dec and radius all empty passes
\* paginateCallback a filter set without the keys position, ra, dec, radius,
\* and stores no position label among the filter chips.
StartsWith(str, prefix) ==
    Len(str) >= Len(prefix) /\ SubSeq(str, 1, Len(prefix)) = prefix

EmptyPosition(formData) ==
    Get(formData, K_position) = PosV(EmptyString, EmptyString, EmptyString)

EmptyPositionIsAbsent ==
    \A c \in 1..Len(calls) :
        (calls[c].handler = "handleFilterSubmit" /\ EmptyPosition(calls[c].input)) =>
            /\ \A key \in {K_position, K_ra, K_dec, K_radius} :
                  ~Has(calls[c].filters, key)
            /\ c = Len(calls) =>
                  /\ \A label \in Range(tableFilterList) :
                        ~StartsWith(label, K_position \o <<":", " ">>)
                  /\ filterFormData = <<calls[c].filters>>

EmptyPositionSubmittedWithOtherFilter ==
    \E c \in 1..Len(calls) :
        /\ c = Len(calls)
        /\ EmptyPosition(calls[c].input)
        /\ Get(calls[c].input, K_sourceID) = StrV(<<"Z", "T", "F">>)
        /\ calls[c].filters = << <<K_sourceID, StrV(<<"Z", "T", "F">>)>> >>
        /\ tableFilterList = << K_sourceID \o <<":", " ", "Z", "T", "F">> >>

\* C11 as written: when a requested source is approved (handleSaveSource) or
\* declined (handleIgnoreSource) and the accept/decline thunk has completed,
\* both dependent lists, the pending and the saved group sources, are
\* eventually re-fetched for the group of the table.
DispatchesOf(i) == SelectSeq(dispatched, LAMBDA e : e.inv = i)

\* The calls of dispatch, made by the handler of thunk i once that thunk had
\* dispatched its terminal action, that re-fetch a list for the group.
Refetches(i, creator) ==
    {k \in 1..Len(dispatched) :
        /\ dispatched[k].inv = i
        /\ dispatched[k].creator = creator
        /\ dispatched[k].args = FetchArgs(awaiting[i].groupID)
        /\ \E p \in At(i, "terminal") : p <= dispatched[k].at}

RequestCompleted(i) == awaiting[i].handler # "none" /\ Completed(i)

CompletedRequestLeadsToBothRefetches ==
    \A i \in Thunks :
        RequestCompleted(i) ~>
            /\ Refetches(i, "fetchPendingGroupSources") # {}
            /\ Refetches(i, "fetchSavedGroupSources") # {}

\* C11 as amended: the accept/decline thunk is dispatched first, before its
\* start action; once it has completed the handler returns, having dispatched
\* after the terminal action, when that action has status "success", the
\* re-fetch of the pending group sources and, for an approval only, that of
\* the saved group sources, both for the group of the table, page 1, 10 per
\* page; when the action has another status or none, nothing more.
RequestCreator(i) ==
    IF awaiting[i].handler = "handleSaveSource"
    THEN "acceptSaveRequest"
    ELSE "declineSaveRequest"

ExpectedRefetches(i) ==
    IF Field(Result(i), "status") # "success" THEN <<>>
    ELSE IF awaiting[i].handler = "handleSaveSource"
    THEN <<"fetchPendingGroupSources", "fetchSavedGroupSources">>
    ELSE <<"fetchPendingGroupSources">>

RequestThenRefetches ==
    \A i \in Thunks :
        LET ds == DispatchesOf(i)
        IN  IF awaiting[i].handler = "none" THEN ds = <<>>
            ELSE /\ Len(ds) >= 1
                 /\ ds[1].creator = RequestCreator(i)
                 /\ ds[1].args = RequestArgs(awaiting[i].sourceID,
                                             awaiting[i].groupID)
                 /\ \A p \in At(i, "start") : ds[1].at < p
                 /\ ~awaiting[i].returned => Len(ds) = 1
                 /\ awaiting[i].returned =>
                       /\ Completed(i)
                       /\ [k \in 1..(Len(ds) - 1) |-> ds[k + 1].creator]
                             = ExpectedRefetches(i)
                       /\ \A k \in 2..Len(ds) :
                             /\ ds[k].args = FetchArgs(awaiting[i].groupID)
                             /\ \E p \in At(i, "terminal") : p <= ds[k].at

CompletedRequestLeadsToRefetches ==
    /\ []RequestThenRefetches
    /\ \A i \in Thunks : RequestCompleted(i) ~> awaiting[i].returned

DeclinedAndPendingRefetched ==
    \E i \in Thunks :
        /\ awaiting[i].handler = "handleIgnoreSource"
        /\ awaiting[i].returned
        /\ Field(Result(i), "status") = "success"
        /\ Refetches(i, "fetchPendingGroupSources") # {}
        /\ Refetches(i, "fetchSavedGroupSources") = {}

\* C12: every call of paginateCallback made by a filter-form submission has
\* page number 1, the current rows per page, an empty sort order, and a
\* filter set without a nested position, in which a cone search that is not
\* empty appears as the keys ra, dec and radius and in which no key has an
\* empty value; that filter set is the stored last-applied filter.
NoEmptyValue(filters) ==
    \A k \in 1..Len(filters) : filters[k][2] # StrV(EmptyString)

ConeSearchFlattened(formData, filters) ==
    LET position == Get(formData, K_position)
    IN  /\ ~Has(filters, K_position)
        /\ ~EmptyPosition(formData) =>
              /\ Has(filters, K_ra) /\ Has(filters, K_dec) /\ Has(filters, K_radius)
              /\ Get(filters, K_ra) = StrV(position[2])
              /\ Get(filters, K_dec) = StrV(position[3])
              /\ Get(filters, K_radius) = StrV(position[4])

SubmitFetchesPageOneWithoutEmptyValues ==
    \A c \in 1..Len(calls) :
        calls[c].handler = "handleFilterSubmit" =>
            /\ calls[c].pageNumber = 1
            /\ calls[c].sortOrder = <<>>
            /\ ConeSearchFlattened(calls[c].input, calls[c].filters)
            /\ NoEmptyValue(calls[c].filters)
            /\ c = Len(calls) =>
                  /\ calls[c].numPerPage = rowsPerPage
                  /\ filterFormData = <<calls[c].filters>>

\* C13: every call of paginateCallback or sortingCallback made by a page
\* change, a rows-per-page change or a sort passes the filter set of the most
\* recent filter submit or chip change (null when there was none); every call
\* made by a filter submit or chip change passes the rows per page of the most
\* recent page or rows-per-page change (the numPerPage prop when there was
\* none); a step that changes the displayed columns makes no call and
\* changes nothing else.
IsFilterChange(c) ==
    calls[c].handler \in {"handleFilterSubmit", "handleTableFilterChipChange"}

IsPageChange(c) ==
    /\ calls[c].handler = "handleTableChange"
    /\ calls[c].input \in {"changePage", "changeRowsPerPage"}

\* The greatest of a set of positions, 0 for the empty set.
Latest(positions) ==
    IF positions = {} THEN 0
    ELSE CHOOSE j \in positions : \A k \in positions : k <= j

FilterSetBefore(c) ==
    LET j == Latest({k \in 1..(c - 1) : IsFilterChange(k)})
    IN  IF j = 0 THEN <<>> ELSE <<calls[j].filters>>

RowsPerPageBefore(c) ==
    LET j == Latest({k \in 1..(c - 1) : IsPageChange(k)})
    IN  IF j = 0 THEN numPerPage ELSE calls[j].numPerPage

CallsPassLatestState ==
    \A c \in 1..Len(calls) :
        /\ calls[c].handler = "handleTableChange" =>
              calls[c].filters = FilterSetBefore(c)
        /\ IsFilterChange(c) => calls[c].numPerPage = RowsPerPageBefore(c)

ColumnChangeAlone ==
    displayedColumns' # displayedColumns =>
        UNCHANGED <<filterVars, defaultDisplayedColumns, mounts, apiVars, requestVars>>

FetchesPassLatestFilterAndRowsPerPage ==
    /\ []CallsPassLatestState
    /\ [][ColumnChangeAlone]_vars

\* A chip removed after a submit, then a page change that sets 25 rows per
\* page and passes the filter set of the chip change, with a column toggled.
PageChangeAfterChipChange ==
    /\ Len(calls) = 3
    /\ calls[1].handler = "handleFilterSubmit"
    /\ calls[2].handler = "handleTableFilterChipChange"
    /\ calls[2].filters # calls[1].filters
    /\ IsPageChange(3)
    /\ calls[3].filters = <<calls[2].filters>>
    /\ calls[3].numPerPage = 25
    /\ numPerPage = 10
    /\ rowsPerPage = 25
    /\ "Alias" \in Range(displayedColumns)

\* C14 as written: for a submitted form whose keys and values do not contain
\* ": " and whose cone search is empty or has ra, dec and radius all filled in,
\* handing the chip labels of the submission back unchanged yields a call
\* for page 1 with the same filter set, and handing them back without one label
\* yields the filter set without the key (for position: the keys ra, dec,
\* radius) of that label.
HasDelimiter(str) == IndexOf(str, <<":", " ">>) # 0

\* The filter set and the chip labels of the submission of formData.
SubmittedData(formData) == filterOutEmptyValues(RemoveEmptyPosition(formData))

SubmittedChips(formData) ==
    LET data == SubmittedData(formData)
    IN  [k \in 1..Len(data) |-> ChipLabel(data[k][1], data[k][2])]

ConeSearchValues(formData) ==
    LET position == Get(formData, K_position)
    IN  {position[2], position[3], position[4]}

WithoutDelimiter(formData) ==
    /\ \A k \in 1..Len(formData) :
          /\ ~HasDelimiter(formData[k][1])
          /\ formData[k][1] # K_position => ~HasDelimiter(formData[k][2][2])
    /\ \A c \in ConeSearchValues(formData) : ~HasDelimiter(c)
    /\ EmptyPosition(formData) \/ EmptyString \notin ConeSearchValues(formData)

\* Two objects with the same keys and the same values.
SameMembers(a, b) == Len(a) = Len(b) /\ Range(a) = Range(b)

\* The flattened filter set without the keys of the k-th chip (k = 0: whole).
WithoutChip(formData, k) ==
    LET data == SubmittedData(formData)
        flat == ExpandPosition(data)
    IN  IF k = 0 THEN flat
        ELSE IF data[k][1] = K_position
        THEN Delete(Delete(Delete(flat, K_ra), K_dec), K_radius)
        ELSE Delete(flat, data[k][1])

\* The chips of the submission calls[1] came back at calls[2] as they should
\* for every form that satisfies the precondition.
RoundTrips(Precondition(_)) ==
    (/\ Len(calls) >= 2
     /\ calls[1].handler = "handleFilterSubmit"
     /\ calls[2].handler = "handleTableFilterChipChange"
     /\ Precondition(calls[1].input)) =>
        /\ calls[1].filters = WithoutChip(calls[1].input, 0)
        /\ calls[2].pageNumber = 1
        /\ \A k \in 0..Len(SubmittedChips(calls[1].input)) :
              calls[2].input = RemoveAt(SubmittedChips(calls[1].input), k) =>
                  SameMembers(calls[2].filters, WithoutChip(calls[1].input, k))
        /\ Len(calls) = 2 => filterFormData = <<calls[2].filters>>

ChipsRoundTrip == RoundTrips(WithoutDelimiter)

\* C14 as amended: the same, for the forms whose cone search, when present,
\* has for ra, dec and radius numbers: digits, ".", "-", "+", at least one
\* digit.
IsNumber(str) ==
    /\ \A k \in 1..Len(str) : str[k] \in Digits \cup {".", "-", "+"}
    /\ \E k \in 1..Len(str) : str[k] \in Digits

WithNumbers(formData) ==
    /\ WithoutDelimiter(formData)
    /\ EmptyPosition(formData) \/ \A c \in ConeSearchValues(formData) : IsNumber(c)

NumbersRoundTrip == RoundTrips(WithNumbers)

\* A text filter and a cone search of numbers submitted, and the chips handed
\* back without the position chip.
PositionChipRemoved ==
    /\ Len(calls) = 2
    /\ calls[1].handler = "handleFilterSubmit"
    /\ WithNumbers(calls[1].input)
    /\ calls[1].filters = << <<K_sourceID, StrV(<<"Z", "T", "F">>)>>,
                             <<K_ra, StrV(<<"1", "0">>)>>,
                             <<K_dec, StrV(<<"1", "0">>)>>,
                             <<K_radius, StrV(<<"1", "0">>)>> >>
    /\ calls[2].handler = "handleTableFilterChipChange"
    /\ calls[2].input = RemoveAt(SubmittedChips(calls[1].input), 2)
    /\ calls[2].filters = << <<K_sourceID, StrV(<<"Z", "T", "F">>)>> >>
    /\ filterFormData = <<calls[2].filters>>

\* C15: the initially displayed columns of every SourceTable instance depend
\* on its own favoritesRemoveButton prop only: two instances mounted with the
\* same prop start with the same columns, and an instance mounted with
\* favoritesRemoveButton false starts with the "Favorites" column, whatever
\* instances were rendered before it.
InitialColumnsFollowOwnProp ==
    /\ \A n \in 1..Len(mounts), m \in 1..Len(mounts) :
          mounts[n].favoritesRemoveButton = mounts[m].favoritesRemoveButton =>
              mounts[n].displayedColumns = mounts[m].displayedColumns
    /\ \A n \in 1..Len(mounts) :
          ~mounts[n].favoritesRemoveButton =>
              "Favorites" \in Range(mounts[n].displayedColumns)

====
